---- MODULE Spec2Model ----
(***************************************************************************)
(* A model of rules_python/whl.py: the Wheel class (name parsing, metadata *)
(* reading, dependency resolution, namespace repair, package-root search)  *)
(* and the main() pipeline that drives it.                                 *)
(*                                                                         *)
(* Strings the code computes on (the base name, requirement strings, path  *)
(* segments, the package name) are sequences of one-character strings, so  *)
(* that split, splitext, dirname and join are computed, not assumed.       *)
(* Strings the code only compares (extras, markers) are TLA+ strings.      *)
(* An optional value is a sequence of length <= 1: None is <<>>.           *)
(***************************************************************************)
EXTENDS Integers, Sequences, FiniteSets, TLC

VARIABLES
    basename,     \* Wheel.basename(): the archive's base file name
    parsed,       \* the last distribution()/version() call and its outcome
    archive,      \* the dist-info metadata entries of the .whl file
    satisfied,    \* the markers pkg_resources.evaluate_marker reports true
    opens,        \* how many times metadata() has opened the archive
    calls,        \* how many name()/dependencies()/extras() calls were made
    ret,          \* the last name()/dependencies()/extras() call and outcome
    names,        \* whl.namelist(): the archive's entry names
    walks,        \* get_init_paths: what each entry's walk added
    init_paths,   \* get_init_paths: the returned set
    disk,         \* the extracted directory tree (every file and directory)
    pkgname,      \* _find_package_path: name = self.name()
    dirs,         \* _bfs_walk: the queue of directories
    import_path,  \* _find_package_path's result
    extracted,    \* main: the archive entries extracted so far
    written,      \* main: the marker files written so far
    manifest,     \* main: the BUILD file's contents, once written
    args_extras,  \* main: args.extras
    pc            \* where the run stands

nameVars == <<basename, parsed>>
wheelVars == <<archive, satisfied, opens, calls, ret>>
initVars == <<names, walks, init_paths>>
bfsVars == <<disk, pkgname, dirs, import_path>>
mainVars == <<extracted, written, manifest, args_extras>>
vars == <<basename, parsed, archive, satisfied, opens, calls, ret, names,
          walks, init_paths, disk, pkgname, dirs, import_path, extracted,
          written, manifest, args_extras, pc>>

----------------------------------------------------------------------------
(* Values shared by every part.                                            *)

None == <<>>
Some(x) == <<x>>

\* All sequences over S of length at most n.
SeqsUpTo(S, n) == UNION {[1..k -> S] : k \in 0..n}

Ok(v) == [ok |-> TRUE, value |-> v]
Raise(e) == [ok |-> FALSE, value |-> e]

\* str.split(sep) and re.split('[...]', s): the tokens between separators;
\* adjacent separators give empty tokens, and there is always one token.
RECURSIVE SplitFrom(_, _, _, _)
SplitFrom(s, seps, i, cur) ==
    IF i > Len(s) THEN <<cur>>
    ELSE IF s[i] \in seps THEN <<cur>> \o SplitFrom(s, seps, i + 1, <<>>)
    ELSE SplitFrom(s, seps, i + 1, Append(cur, s[i]))

Split(s, seps) == SplitFrom(s, seps, 1, <<>>)

----------------------------------------------------------------------------
(* Name parser: Wheel.distribution and Wheel.version.                      *)

MaxBaseLen == 4
BaseChars == {"a", "1", "-"}

NoCall == [op |-> "none", ok |-> TRUE, value |-> <<>>]

\* parts = self.basename().split('-'); return parts[0]
distribution(b) == Ok(Split(b, {"-"})[1])

\* The slip of returning the last segment instead of the second.
version_last(b) ==
    LET parts == Split(b, {"-"})
    IN IF Len(parts) < 2 THEN Raise("IndexError") ELSE Ok(parts[Len(parts)])

\* parts = self.basename().split('-'); return parts[1]
version(b) ==
    LET parts == Split(b, {"-"})
    IN IF Len(parts) < 2 THEN Raise("IndexError") ELSE Ok(parts[2])

NameIdle == basename = <<>> /\ parsed = NoCall

CallDistribution ==
    /\ pc = "name"
    /\ parsed' = [op |-> "distribution"] @@ distribution(basename)
    /\ UNCHANGED <<basename, pc, wheelVars, initVars, bfsVars, mainVars>>

CallVersion ==
    /\ pc = "name"
    /\ parsed' = [op |-> "version"] @@ version(basename)
    /\ UNCHANGED <<basename, pc, wheelVars, initVars, bfsVars, mainVars>>

----------------------------------------------------------------------------
(* Metadata reader and dependency resolver: Wheel.metadata, name,          *)
(* dependencies, extras.                                                   *)

MaxReqs == 2
MaxCalls == 2

PKG == <<"p", "k", "g">>
QPKG == <<"q">>
FOO_GE == <<"f", ">", "=", "1">>
BAR == <<"b">>

Extras == {"x"}
Markers == {"", "m"}
RequiresChoices == {None, Some(<<FOO_GE>>), Some(<<BAR, FOO_GE>>)}
Requirements ==
    [extra : {None} \cup {Some(e) : e \in Extras},
     environment : {None} \cup {Some(m) : m \in Markers},
     requires : RequiresChoices]

\* dict.get(key, default) on an optional field.
Get(field, default) == IF field = None THEN default ELSE field[1]

\* _parse_metadata: the first "Name: (.*)" match of the text, here a sequence
\* of key/value lines; no match makes .group(1) fail on None.
parse_metadata(content) ==
    LET hits == {i \in 1..Len(content) : content[i].key = "Name"}
    IN IF hits = {} THEN Raise("AttributeError")
       ELSE LET first == CHOOSE i \in hits : \A j \in hits : i <= j
            IN Ok([name |-> Some(content[first].value),
                   run_requires |-> None, extras |-> None])

\* The slip of catching every error of the metadata.json read, not KeyError.
metadata_catch_all(b, whl) ==
    IF ~version(b).ok THEN Raise("IndexError") @@ [read |-> {}]
    ELSE IF whl.json # None /\ whl.json[1].valid
    THEN Ok(whl.json[1].doc) @@ [read |-> {"metadata.json"}]
    ELSE IF whl.METADATA = None
    THEN Raise("KeyError") @@ [read |-> {}]
    ELSE parse_metadata(whl.METADATA[1]) @@ [read |-> {"METADATA"}]

\* Wheel.metadata on a base name and an opened archive: metadata.json first;
\* only its absence (KeyError) falls through to METADATA. read is the set of
\* entries whose open succeeded.
metadata(b, whl) ==
    IF ~version(b).ok THEN Raise("IndexError") @@ [read |-> {}]
    ELSE IF whl.json # None
    THEN IF whl.json[1].valid
         THEN Ok(whl.json[1].doc) @@ [read |-> {"metadata.json"}]
         ELSE Raise("ValueError") @@ [read |-> {"metadata.json"}]
    ELSE IF whl.METADATA = None
    THEN Raise("KeyError") @@ [read |-> {}]
    ELSE parse_metadata(whl.METADATA[1]) @@ [read |-> {"METADATA"}]

\* The slip of opening the archive only when nothing was read before.
OpenArchiveOnce(n) == IF n = 0 THEN 1 ELSE n

\* with zipfile.ZipFile(self.path(), 'r') as whl: every metadata() call.
OpenArchive(n) == n + 1

\* if marker and not pkg_resources.evaluate_marker(marker): continue
MarkerSkips(marker, sat) ==
    /\ marker # None
    /\ marker[1] # ""
    /\ marker[1] \notin sat

\* The slip of testing the extra with == where the code has !=.
ExtraSkipsInverted(requirement, extra) == requirement.extra = extra

\* if requirement.get('extra') != extra: continue
ExtraSkips(requirement, extra) == requirement.extra # extra

SplitChars == {" ", ">", "<", "=", "(", ")"}

\* parts = re.split('[ ><=()]', entry); yield parts[0]
Strip(entry) == Split(entry, SplitChars)[1]

\* The inner loop: for entry in requires: yield parts[0]. Each yield is kept
\* with the indices of the requirement and of the string it came from.
RECURSIVE YieldEntries(_, _, _)
YieldEntries(requires, i, j) ==
    IF j > Len(requires) THEN <<>>
    ELSE <<[from |-> i, pos |-> j, name |-> Strip(requires[j])]>>
         \o YieldEntries(requires, i, j + 1)

\* The slip of walking the requirements last to first.
RECURSIVE DependenciesReversed(_, _, _, _)
DependenciesReversed(run_requires, extra, sat, i) ==
    IF i > Len(run_requires) THEN <<>>
    ELSE LET k == Len(run_requires) + 1 - i
             requirement == run_requires[k]
         IN (IF \/ ExtraSkips(requirement, extra)
                \/ MarkerSkips(requirement.environment, sat)
             THEN <<>>
             ELSE YieldEntries(Get(requirement.requires, <<>>), k, 1))
            \o DependenciesReversed(run_requires, extra, sat, i + 1)

\* The outer loop of Wheel.dependencies, from requirement i on.
RECURSIVE DependenciesFrom(_, _, _, _)
DependenciesFrom(run_requires, extra, sat, i) ==
    IF i > Len(run_requires) THEN <<>>
    ELSE LET requirement == run_requires[i]
         IN (IF \/ ExtraSkips(requirement, extra)
                \/ MarkerSkips(requirement.environment, sat)
             THEN <<>>
             ELSE YieldEntries(Get(requirement.requires, <<>>), i, 1))
            \o DependenciesFrom(run_requires, extra, sat, i + 1)

\* Wheel.dependencies(extra), iterated to its end.
dependencies(md, extra, sat) ==
    DependenciesFrom(Get(md.run_requires, <<>>), extra, sat, 1)

WheelIdle ==
    /\ archive = [json |-> None, METADATA |-> None]
    /\ satisfied = {}
    /\ opens = 0
    /\ calls = 0
    /\ ret = [op |-> "none"]

\* Wheel.name(): self.metadata().get('name')
CallName ==
    /\ pc = "wheel"
    /\ calls < MaxCalls
    /\ LET md == metadata(basename, archive)
       IN ret' = [op |-> "name", arg |-> None, ok |-> md.ok, read |-> md.read,
                  value |-> IF md.ok THEN md.value.name ELSE md.value]
    /\ opens' = OpenArchive(opens)
    /\ calls' = calls + 1
    /\ UNCHANGED <<archive, satisfied, pc, nameVars, initVars, bfsVars, mainVars>>

\* Wheel.extras(): self.metadata().get('extras', [])
CallExtras ==
    /\ pc = "wheel"
    /\ calls < MaxCalls
    /\ LET md == metadata(basename, archive)
       IN ret' = [op |-> "extras", arg |-> None, ok |-> md.ok, read |-> md.read,
                  value |-> IF md.ok THEN Get(md.value.extras, <<>>)
                            ELSE md.value]
    /\ opens' = OpenArchive(opens)
    /\ calls' = calls + 1
    /\ UNCHANGED <<archive, satisfied, pc, nameVars, initVars, bfsVars, mainVars>>

\* Wheel.dependencies(extra), consumed by its caller to the end.
CallDependencies ==
    /\ pc = "wheel"
    /\ calls < MaxCalls
    /\ \E extra \in {None} \cup {Some(e) : e \in Extras} :
         LET md == metadata(basename, archive)
         IN ret' = [op |-> "dependencies", arg |-> extra, ok |-> md.ok,
                    read |-> md.read,
                    value |-> IF md.ok
                              THEN dependencies(md.value, extra, satisfied)
                              ELSE md.value]
    /\ opens' = OpenArchive(opens)
    /\ calls' = calls + 1
    /\ UNCHANGED <<archive, satisfied, pc, nameVars, initVars, bfsVars, mainVars>>

NextWheel == CallName \/ CallExtras \/ CallDependencies

----------------------------------------------------------------------------
(* Namespace repair: Wheel.get_init_paths. A path is the sequence of its   *)
(* segments: zip entry names are relative and '/'-separated.               *)

MaxDepth == 2
MaxNames == 2

A == <<"a">>
B == <<"b">>
RUAMEL == <<"r", "u", "a", "m", "e", "l">>
MOD_PY == <<"m", ".", "p", "y">>
LIB_SO == <<"l", ".", "s", "o">>
DATA_TXT == <<"d", ".", "t">>
INIT_PY == <<"_", "_", "i", "n", "i", "t", "_", "_", ".", "p", "y">>
INIT_PYC == <<"_", "_", "i", "n", "i", "t", "_", "_", ".", "p", "y", "c">>

\* NAMESPACES = ["ruamelj]: the literal of line 126 is unterminated; it is
\* read as the list of the one top-level directory it names.
NAMESPACES == {<<RUAMEL>>}

\* os.path.splitext(n)[1]: from the last dot of the last segment, unless
\* only dots precede it.
splitext1(n) ==
    LET seg == n[Len(n)]
        dots == {i \in 1..Len(seg) : seg[i] = "."}
    IN IF dots = {} THEN <<>>
       ELSE LET last == CHOOSE i \in dots : \A j \in dots : j <= i
            IN IF \E j \in 1..(last - 1) : seg[j] # "."
               THEN SubSeq(seg, last, Len(seg))
               ELSE <<>>

\* os.path.sep in n
SepIn(n) == Len(n) > 1

\* os.path.dirname(n), for n with a separator
dirname(n) == SubSeq(n, 1, Len(n) - 1)

\* os.path.join(n, fname)
join(n, fname) == Append(n, fname)

\* The slip of leaving the walk (break) at a marked directory.
RECURSIVE WalkUpBreak(_, _)
WalkUpBreak(n, nms) ==
    IF ~SepIn(n) THEN {}
    ELSE LET d == dirname(n)
         IN IF /\ (join(d, INIT_PY) \in nms \/ join(d, INIT_PYC) \in nms)
               /\ d \notin NAMESPACES
            THEN {}
            ELSE {join(d, INIT_PY)} \cup WalkUpBreak(d, nms)

\* The while loop of get_init_paths for one entry: continue skips the add at
\* a marked directory and goes on with the loop's next round.
RECURSIVE WalkUp(_, _)
WalkUp(n, nms) ==
    IF ~SepIn(n) THEN {}
    ELSE LET d == dirname(n)
         IN IF /\ (join(d, INIT_PY) \in nms \/ join(d, INIT_PYC) \in nms)
               /\ d \notin NAMESPACES
            THEN WalkUp(d, nms)
            ELSE {join(d, INIT_PY)} \cup WalkUp(d, nms)

\* The slip of leaving '.so' out of the extension list.
EntryWalkNoSo(n, nms) ==
    IF splitext1(n) \notin {<<".", "p", "y">>, <<".", "p", "y", "c">>}
    THEN {}
    ELSE WalkUp(n, nms)

\* The body of "for n in names": the extension test, then the walk.
EntryWalk(n, nms) ==
    IF splitext1(n) \notin
         {<<".", "s", "o">>, <<".", "p", "y">>, <<".", "p", "y", "c">>}
    THEN {}
    ELSE WalkUp(n, nms)

\* Wheel.get_init_paths(names)
get_init_paths(nms) == UNION {EntryWalk(n, nms) : n \in nms}

InitPathsIdle == names = {} /\ walks = <<>> /\ init_paths = {}

CallGetInitPaths ==
    /\ pc = "init_paths"
    /\ walks' = [n \in names |-> EntryWalk(n, names)]
    /\ init_paths' = get_init_paths(names)
    /\ pc' = "returned"
    /\ UNCHANGED <<names, nameVars, wheelVars, bfsVars, mainVars>>

----------------------------------------------------------------------------
(* Package-root locator: _bfs_walk and Wheel._find_package_path, over the  *)
(* tree [files, dirs] of paths relative to the directory searched.         *)

MaxNodes == 5

Root == <<>>

IsPrefix(p, q) == Len(p) <= Len(q) /\ SubSeq(q, 1, Len(p)) = p

\* os.listdir(parent), as joined paths
listdir(tree, parent) ==
    {p \in tree.files \cup tree.dirs : Len(p) = Len(parent) + 1 /\ IsPrefix(parent, p)}

\* os.path.isdir(d)
isdir(tree, d) == d = Root \/ d \in tree.dirs

\* os.path.exists(p)
exists(tree, p) == p = Root \/ p \in tree.dirs \/ p \in tree.files

\* Every order in which os.listdir may list the set S.
Orders(S) ==
    {f \in [1..Cardinality(S) -> S] : \A i, j \in 1..Cardinality(S) : f[i] = f[j] => i = j}

Unset == [kind |-> "unset", dir |-> Root]

\* The slip of popping the queue's last directory (dirs.pop()).
pop_last(q) == [parent |-> q[Len(q)], rest |-> SubSeq(q, 1, Len(q) - 1)]

\* parent = dirs.pop(0)
pop0(q) == [parent |-> Head(q), rest |-> Tail(q)]

BfsIdle ==
    /\ disk = [files |-> {}, dirs |-> {}]
    /\ pkgname = <<>>
    /\ dirs = <<>>
    /\ import_path = Unset

\* One round of "for dirname in _bfs_walk(directory)": the generator pops the
\* first directory, queues its subdirectories and yields it; the loop body
\* returns it when it holds an entry named name.
BfsStep ==
    /\ pc = "walk"
    /\ dirs # <<>>
    /\ LET parent == pop0(dirs).parent
           children == {d \in listdir(disk, parent) : isdir(disk, d)}
       IN /\ \E order \in Orders(children) : dirs' = pop0(dirs).rest \o order
          /\ IF exists(disk, join(parent, pkgname))
             THEN /\ import_path' = [kind |-> "dir", dir |-> parent]
                  /\ pc' = "found"
             ELSE /\ import_path' = import_path
                  /\ pc' = "walk"
    /\ UNCHANGED <<disk, pkgname, nameVars, wheelVars, initVars, mainVars>>

\* The generator is exhausted: return "."
BfsFallback ==
    /\ pc = "walk"
    /\ dirs = <<>>
    /\ import_path' = [kind |-> "sentinel", dir |-> Root]
    /\ pc' = "fallback"
    /\ UNCHANGED <<disk, pkgname, dirs, nameVars, wheelVars, initVars, mainVars>>

NextBfs == BfsStep \/ BfsFallback

----------------------------------------------------------------------------
(* The pipeline: main(), with Wheel.expand and the BUILD file.             *)

BUILD == <<"B", "U", "I", "L", "D">>

NoManifest == [written |-> FALSE]

MainIdle ==
    /\ extracted = {}
    /\ written = {}
    /\ manifest = NoManifest
    /\ args_extras = <<>>

\* The directories extractall creates for an entry: its proper ancestors.
Ancestors(e) == {SubSeq(e, 1, k) : k \in 1..(Len(e) - 1)}

\* whl.extractall(directory) has returned.
ExtractionDone(ex, nms) == ex = nms

\* names = set(whl.namelist()): the archive's entry names, whatever the
\* directory holds.
captured_names(nms, tree) == nms

\* The slip of looking for the package before the markers are written.
RepairDoneEarly(wr, paths) == TRUE

\* The for loop over get_init_paths(names) has ended.
RepairDone(wr, paths) == wr = paths

\* whl.extractall(directory), one entry at a time.
ExtractEntry ==
    /\ pc = "extract"
    /\ \E e \in names \ extracted :
         /\ disk' = [files |-> disk.files \cup {e},
                     dirs |-> disk.dirs \cup Ancestors(e)]
         /\ extracted' = extracted \cup {e}
    /\ UNCHANGED <<pc, written, manifest, args_extras, pkgname, dirs,
                   import_path, nameVars, wheelVars, initVars>>

\* The archive cannot be opened, or an entry cannot be read or written.
ExtractFail ==
    /\ pc = "extract"
    /\ ~ExtractionDone(extracted, names)
    /\ pc' = "failed_extract"
    /\ UNCHANGED <<nameVars, wheelVars, initVars, bfsVars, mainVars>>

\* names = set(whl.namelist()); the archive is closed; get_init_paths(names).
CaptureNames ==
    /\ pc = "extract"
    /\ ExtractionDone(extracted, names)
    /\ init_paths' = get_init_paths(captured_names(names, disk))
    /\ pc' = "repair"
    /\ UNCHANGED <<names, walks, nameVars, wheelVars, bfsVars, mainVars>>

\* with open(os.path.join(directory, initpy), 'w') as f:
\*   f.write(INITPY_CONTENTS), a constant this file does not define.
WriteMarker ==
    /\ pc = "repair"
    /\ \E initpy \in init_paths \ written :
         /\ disk' = [disk EXCEPT !.files = @ \cup {initpy}]
         /\ written' = written \cup {initpy}
    /\ UNCHANGED <<pc, extracted, manifest, args_extras, pkgname, dirs,
                   import_path, nameVars, wheelVars, initVars>>

\* A marker file cannot be written.
WriteMarkerFail ==
    /\ pc = "repair"
    /\ ~RepairDone(written, init_paths)
    /\ pc' = "failed_repair"
    /\ UNCHANGED <<nameVars, wheelVars, initVars, bfsVars, mainVars>>

\* whl._find_package_path(args.directory), up to the loop: name = self.name()
\* and the generator's dirs = [dirname]. Without a name the search fails.
FindStart ==
    /\ pc = "repair"
    /\ RepairDone(written, init_paths)
    /\ LET md == metadata(basename, archive)
       IN IF md.ok /\ md.value.name # None
          THEN /\ pkgname' = md.value.name[1]
               /\ dirs' = <<Root>>
               /\ pc' = "walk"
          ELSE /\ UNCHANGED <<pkgname, dirs>>
               /\ pc' = "failed_find"
    /\ opens' = OpenArchive(opens)
    /\ calls' = calls + 1
    /\ UNCHANGED <<archive, satisfied, ret, disk, import_path, nameVars,
                   initVars, mainVars>>

RECURSIVE OpenTimes(_, _)
OpenTimes(n, k) == IF k = 0 THEN n ELSE OpenTimes(OpenArchive(n), k - 1)

DepNames(ys) == [i \in 1..Len(ys) |-> ys[i].name]

\* The BUILD file: opened for writing, then formatted from import_path,
\* whl.dependencies() and whl.dependencies(extra) for each of args.extras.
WriteBuild ==
    /\ pc \in {"found", "fallback"}
    /\ LET md == metadata(basename, archive).value
       IN manifest' =
            [written |-> TRUE,
             imports |-> import_path,
             deps |-> DepNames(dependencies(md, None, satisfied)),
             extras |-> [i \in 1..Len(args_extras) |->
                           DepNames(dependencies(md, Some(args_extras[i]),
                                                 satisfied))]]
    /\ disk' = [disk EXCEPT !.files = @ \cup {<<BUILD>>}]
    /\ opens' = OpenTimes(opens, 1 + Len(args_extras))
    /\ calls' = calls + 1 + Len(args_extras)
    /\ pc' = "done"
    /\ UNCHANGED <<archive, satisfied, ret, pkgname, dirs, import_path,
                   extracted, written, args_extras, nameVars, initVars>>

\* The BUILD file cannot be written.
WriteBuildFail ==
    /\ pc \in {"found", "fallback"}
    /\ pc' = "failed_build"
    /\ UNCHANGED <<nameVars, wheelVars, initVars, bfsVars, mainVars>>

----------------------------------------------------------------------------
(* Initial states and specifications.                                      *)

GoodBase == <<"a", "-", "1">>

\* A base name of any shape; distribution() and version() are called on it.
InitName ==
    /\ pc = "name"
    /\ basename \in SeqsUpTo(BaseChars, MaxBaseLen)
    /\ parsed = NoCall
    /\ WheelIdle /\ InitPathsIdle /\ BfsIdle /\ MainIdle

NextName == CallDistribution \/ CallVersion

SpecName == InitName /\ [][NextName]_vars

NoDoc == [name |-> None, run_requires |-> None, extras |-> None]

Docs ==
    [name : {Some(PKG)},
     run_requires : {None} \cup {Some(r) : r \in SeqsUpTo(Requirements, MaxReqs)},
     extras : {Some(<<"x">>)}]

JsonEntries ==
    {None, Some([valid |-> FALSE, doc |-> NoDoc])}
      \cup {Some([valid |-> TRUE, doc |-> d]) : d \in Docs}

MetadataEntries ==
    {None,
     Some(<<[key |-> "Summary", value |-> PKG], [key |-> "Name", value |-> QPKG]>>),
     Some(<<[key |-> "Summary", value |-> PKG]>>)}

\* A wheel with any of the dist-info contents; its methods are called.
InitWheel ==
    /\ pc = "wheel"
    /\ basename = GoodBase
    /\ parsed = NoCall
    /\ archive \in [json : JsonEntries, METADATA : MetadataEntries]
    /\ satisfied \in SUBSET Markers
    /\ opens = 0
    /\ calls = 0
    /\ ret = [op |-> "none"]
    /\ InitPathsIdle /\ BfsIdle /\ MainIdle

SpecWheel == InitWheel /\ [][NextWheel]_vars

MaxEntryLen == 4
ReqChars == {"p", "k", " ", ">", "<", "=", "(", ")", "!"}

\* A wheel whose metadata.json holds one requirement string of any shape.
InitSplit ==
    /\ pc = "wheel"
    /\ basename = GoodBase
    /\ parsed = NoCall
    /\ \E entry \in SeqsUpTo(ReqChars, MaxEntryLen) :
         archive =
           [json |-> Some([valid |-> TRUE,
                           doc |-> [name |-> Some(PKG),
                                    run_requires |->
                                      Some(<<[extra |-> None,
                                              environment |-> None,
                                              requires |-> Some(<<entry>>)]>>),
                                    extras |-> None]]),
            METADATA |-> None]
    /\ satisfied = {}
    /\ opens = 0
    /\ calls = 0
    /\ ret = [op |-> "none"]
    /\ InitPathsIdle /\ BfsIdle /\ MainIdle

SpecSplit == InitSplit /\ [][NextWheel]_vars

DirNames == {A, RUAMEL}
FileNames == {MOD_PY, LIB_SO, DATA_TXT, INIT_PY, INIT_PYC}
EntryNames ==
    {d \o <<f>> : d \in SeqsUpTo(DirNames, MaxDepth), f \in FileNames}
NameSets == {{f[i] : i \in DOMAIN f} : f \in SeqsUpTo(EntryNames, MaxNames)}

\* Any set of entry names; get_init_paths is called on it.
InitInitPaths ==
    /\ pc = "init_paths"
    /\ names \in NameSets
    /\ walks = <<>>
    /\ init_paths = {}
    /\ NameIdle /\ WheelIdle /\ BfsIdle /\ MainIdle

NextInitPaths == CallGetInitPaths

SpecInitPaths == InitInitPaths /\ [][NextInitPaths]_vars

TreeNames == {PKG, A, B}

RECURSIVE PathOf(_, _, _)
PathOf(parent, label, i) ==
    IF i = 0 THEN Root ELSE Append(PathOf(parent, label, parent[i]), label[i])

\* Any directory tree of up to MaxNodes entries below the root: node i hangs
\* under an earlier directory parent[i] (0 is the root), and no directory
\* holds two entries of one name. The search stands at its loop.
InitBfs ==
    /\ pc = "walk"
    /\ pkgname = PKG
    /\ dirs = <<Root>>
    /\ import_path = Unset
    /\ \E n \in 0..MaxNodes :
         \E parent \in [1..n -> 0..(n - 1)] :
           /\ \A i \in 1..n : parent[i] < i
           /\ \A i \in 1..(n - 1) : parent[i] <= parent[i + 1]
           /\ \E dir \in [1..n -> BOOLEAN] :
                /\ \A i \in 1..n : parent[i] # 0 => dir[parent[i]]
                /\ \E label \in [1..n -> TreeNames] :
                     /\ \A i, j \in 1..n :
                          (i # j /\ parent[i] = parent[j]) => label[i] # label[j]
                     /\ disk = [files |-> {PathOf(parent, label, i) :
                                             i \in {k \in 1..n : ~dir[k]}},
                                dirs |-> {PathOf(parent, label, i) :
                                            i \in {k \in 1..n : dir[k]}}]
    /\ NameIdle /\ WheelIdle /\ InitPathsIdle /\ MainIdle

SpecBfs == InitBfs /\ [][NextBfs]_vars

MainEntries ==
    {<<A, MOD_PY>>, <<A, PKG, MOD_PY>>, <<A, INIT_PY>>, <<PKG, LIB_SO>>}

MainDocs ==
    {[name |-> Some(PKG),
      run_requires |-> Some(<<[extra |-> None, environment |-> None,
                               requires |-> Some(<<FOO_GE>>)],
                              [extra |-> Some("x"), environment |-> Some("m"),
                               requires |-> Some(<<BAR>>)]>>),
      extras |-> Some(<<"x">>)]}

\* main(): a wheel of any of the sample contents, to be unpacked into a
\* directory that is empty or already holds a package marker.
Init ==
    /\ pc = "extract"
    /\ basename = GoodBase
    /\ parsed = NoCall
    /\ archive \in [json : {None} \cup {Some([valid |-> TRUE, doc |-> d]) : d \in MainDocs},
                    METADATA : {None, Some(<<[key |-> "Name", value |-> PKG]>>)}]
    /\ satisfied \in SUBSET {"m"}
    /\ opens = 0
    /\ calls = 0
    /\ ret = [op |-> "none"]
    /\ names \in SUBSET MainEntries
    /\ walks = <<>>
    /\ init_paths = {}
    /\ disk \in {[files |-> {}, dirs |-> {}],
                 [files |-> {<<A, INIT_PY>>}, dirs |-> {<<A>>}]}
    /\ pkgname = <<>>
    /\ dirs = <<>>
    /\ import_path = Unset
    /\ extracted = {}
    /\ written = {}
    /\ manifest = NoManifest
    /\ args_extras \in {<<>>, <<"x">>}

Next ==
    \/ ExtractEntry
    \/ ExtractFail
    \/ CaptureNames
    \/ WriteMarker
    \/ WriteMarkerFail
    \/ FindStart
    \/ BfsStep
    \/ BfsFallback
    \/ WriteBuild
    \/ WriteBuildFail

Spec == Init /\ [][Next]_vars

----------------------------------------------------------------------------
(* Properties.                                                             *)

\* --- Dependency resolver ---

\* The requirement list the last call resolved.
Resolved ==
    IF archive.json # None
    THEN Get(archive.json[1].doc.run_requires, <<>>)
    ELSE <<>>

Resolving == ret.op = "dependencies" /\ ret.ok

YieldsOf(i) == {k \in 1..Len(ret.value) : ret.value[k].from = i}

RequiresOf(i) == Get(Resolved[i].requires, <<>>)

\* The marker is absent, or the evaluator reports it satisfied.
MarkerAdmits(i) ==
    \/ Resolved[i].environment = None
    \/ Resolved[i].environment[1] \in satisfied

\* The same, or the marker is the empty string.
MarkerAdmitsOrEmpty(i) ==
    \/ MarkerAdmits(i)
    \/ Resolved[i].environment = Some("")

\* C1, as stated: dependencies(extra) yields from exactly the run_requires
\* entries whose extra equals the requested one and whose marker is absent or
\* reported satisfied: every string of such an entry, none of any other.
C1_AsStated ==
    Resolving =>
      \A i \in 1..Len(Resolved) :
        Cardinality(YieldsOf(i)) =
          IF Resolved[i].extra = ret.arg /\ MarkerAdmits(i)
          THEN Len(RequiresOf(i)) ELSE 0

\* C1, amended: dependencies(extra) yields from exactly the run_requires
\* entries whose extra equals the requested one and whose marker is absent,
\* empty, or reported satisfied.
C1_Filter ==
    Resolving =>
      \A i \in 1..Len(Resolved) :
        Cardinality(YieldsOf(i)) =
          IF Resolved[i].extra = ret.arg /\ MarkerAdmitsOrEmpty(i)
          THEN Len(RequiresOf(i)) ELSE 0

\* An extra is resolved: an entry of that extra with an empty marker the
\* evaluator does not report satisfied is yielded, a base entry is not.
C1_Witness ==
    /\ Resolving
    /\ ret.arg = Some("x")
    /\ Len(Resolved) = 2
    /\ Resolved[1].extra = Some("x")
    /\ Resolved[1].environment = Some("")
    /\ "" \notin satisfied
    /\ YieldsOf(1) # {}
    /\ Resolved[2].extra = None
    /\ RequiresOf(2) # <<>>
    /\ YieldsOf(2) = {}

RECURSIVE TotalRequires(_)
TotalRequires(i) ==
    IF i = 0 THEN 0
    ELSE TotalRequires(i - 1)
         + (IF Resolved[i].extra = ret.arg /\ MarkerAdmitsOrEmpty(i)
            THEN Len(RequiresOf(i)) ELSE 0)

\* C5: the yields keep the input's order and multiplicity: they come in the
\* order of the entries and, within an entry, of its strings; each is taken
\* from the string at its place; and there are as many as there are strings
\* in the surviving entries.
C5_OrderAndMultiplicity ==
    Resolving =>
      /\ \A k, l \in 1..Len(ret.value) :
           k < l =>
             \/ ret.value[k].from < ret.value[l].from
             \/ /\ ret.value[k].from = ret.value[l].from
                /\ ret.value[k].pos < ret.value[l].pos
      /\ \A k \in 1..Len(ret.value) :
           /\ ret.value[k].from \in 1..Len(Resolved)
           /\ ret.value[k].pos \in 1..Len(RequiresOf(ret.value[k].from))
           /\ IsPrefix(ret.value[k].name,
                       RequiresOf(ret.value[k].from)[ret.value[k].pos])
      /\ Len(ret.value) = TotalRequires(Len(Resolved))

\* Two entries survive and one name is yielded twice.
C5_Witness ==
    /\ Resolving
    /\ Len(ret.value) = 3
    /\ ret.value[1].from = 1
    /\ ret.value[3].from = 2
    /\ ret.value[1].name = ret.value[3].name
    /\ ret.value[2].name # ret.value[1].name

NameChars == {"p", "k"}
VersionOps == {<<">">>, <<"<">>, <<"=", "=">>, <<">", "=">>, <<"<", "=">>, <<"!", "=">>}

\* The longest prefix of s made of characters of S.
RECURSIVE PrefixIn(_, _)
PrefixIn(s, S) ==
    IF s = <<>> \/ s[1] \notin S THEN <<>>
    ELSE <<s[1]>> \o PrefixIn(Tail(s), S)

\* A name, alone or followed by a version operator and a version.
NameThenVersion(s) ==
    LET name == PrefixIn(s, NameChars)
        rest == SubSeq(s, Len(name) + 1, Len(s))
    IN /\ name # <<>>
       /\ \/ rest = <<>>
          \/ \E op \in VersionOps :
               /\ IsPrefix(op, rest)
               /\ Len(rest) > Len(op)
               /\ \A i \in (Len(op) + 1)..Len(rest) : rest[i] \in NameChars

\* C6: each yield is the first token of its string split on the characters
\* space, '>', '<', '=', '(' and ')', and that token is the bare package
\* name, with version constraints and operators stripped.
C6_BareName ==
    Resolving =>
      \A k \in 1..Len(ret.value) :
        LET entry == RequiresOf(ret.value[k].from)[ret.value[k].pos]
        IN /\ ret.value[k].name = PrefixIn(entry, ReqChars \ SplitChars)
           /\ NameThenVersion(entry) =>
                ret.value[k].name = PrefixIn(entry, NameChars)

\* --- Metadata reader ---

Called == ret.op # "none"

\* C3: metadata() returns the parse of metadata.json when that entry is
\* present and valid, whether or not METADATA is present; it reads METADATA
\* if and only if metadata.json is absent; a metadata.json that is not valid
\* JSON makes the call fail, and so does the absence of both entries.
C3_MetadataChoice ==
    Called =>
      /\ (archive.json # None /\ archive.json[1].valid) =>
           /\ ret.ok
           /\ ret.read = {"metadata.json"}
           /\ ret.op = "name" => ret.value = archive.json[1].doc.name
      /\ "METADATA" \in ret.read <=>
           (archive.json = None /\ archive.METADATA # None)
      /\ (archive.json # None /\ ~archive.json[1].valid) => ~ret.ok
      /\ (archive.json = None /\ archive.METADATA = None) => ~ret.ok

\* Both entries are present and name() answers from metadata.json.
C3_Witness ==
    /\ ret.op = "name"
    /\ archive.json # None
    /\ archive.json[1].valid
    /\ archive.METADATA # None
    /\ ret.ok
    /\ ret.value = Some(PKG)

\* C8, as stated: over any sequence of name(), dependencies(extra) and
\* extras() calls, the archive is opened for its metadata at most once.
C8_AsStated == opens <= 1

\* C8, amended: nothing is cached; every name(), dependencies(extra) and
\* extras() call opens the archive and reads the metadata again, so there are
\* as many opens as calls.
C8_OpensEveryCall == opens = calls

\* Two calls were made and the archive was opened twice.
C8_Witness == calls = 2 /\ opens = 2 /\ ret.ok

\* --- Name parser ---

HyphenFree(s) == \A i \in 1..Len(s) : s[i] # "-"

Hyphens(s) == Cardinality({i \in 1..Len(s) : s[i] = "-"})

\* d is what precedes the first hyphen of s (all of s when it has none).
FirstSegment(s, d) ==
    /\ HyphenFree(d)
    /\ IsPrefix(d, s)
    /\ Len(s) = Len(d) \/ s[Len(d) + 1] = "-"

\* v is what lies between the first hyphen of s and the next (or the end).
SecondSegment(s, v) ==
    \E k \in 1..Len(s) :
      /\ s[k] = "-"
      /\ HyphenFree(SubSeq(s, 1, k - 1))
      /\ FirstSegment(SubSeq(s, k + 1, Len(s)), v)

Parsed == parsed.op # "none"

\* C9, as stated: with two or more hyphen-separated segments distribution()
\* returns the first and version() the second, whatever follows; with fewer,
\* parsing fails.
C9_AsStated ==
    Parsed =>
      IF Hyphens(basename) >= 1
      THEN /\ parsed.ok
           /\ parsed.op = "distribution" => FirstSegment(basename, parsed.value)
           /\ parsed.op = "version" => SecondSegment(basename, parsed.value)
      ELSE ~parsed.ok

\* C9, amended: with two or more segments distribution() returns the first
\* and version() the second, whatever follows; with fewer, version() fails
\* and distribution() returns the whole base name.
C9_NameParsing ==
    Parsed =>
      IF Hyphens(basename) >= 1
      THEN /\ parsed.ok
           /\ parsed.op = "distribution" => FirstSegment(basename, parsed.value)
           /\ parsed.op = "version" => SecondSegment(basename, parsed.value)
      ELSE /\ parsed.op = "version" => ~parsed.ok
           /\ parsed.op = "distribution" =>
                (parsed.ok /\ parsed.value = basename)

\* distribution() has answered for a base name without a hyphen.
C9_Witness ==
    /\ parsed.op = "distribution"
    /\ Hyphens(basename) = 0
    /\ Len(basename) > 0
    /\ parsed.ok
    /\ parsed.value = basename

\* --- Namespace repair ---

EndsWith(s, t) == Len(t) <= Len(s) /\ SubSeq(s, Len(s) - Len(t) + 1, Len(s)) = t

\* The entry's name ends in .so, .py or .pyc.
Importable(e) ==
    \/ EndsWith(e[Len(e)], <<".", "s", "o">>)
    \/ EndsWith(e[Len(e)], <<".", "p", "y">>)
    \/ EndsWith(e[Len(e)], <<".", "p", "y", "c">>)

IsMarker(e) == e[Len(e)] \in {INIT_PY, INIT_PYC}

MarkerOf(d) == Append(d, INIT_PY)

\* The directory has a marker among the entry names and is not one of the
\* always-rewritten directories.
Settled(d, nms) ==
    /\ (Append(d, INIT_PY) \in nms \/ Append(d, INIT_PYC) \in nms)
    /\ d \notin NAMESPACES

Returned == pc = "returned"

\* C2, as stated: walking up from an importable entry, a settled directory
\* stops the walk: neither it nor any directory above it gets a marker path
\* on account of this entry; every directory reached before gets one.
C2_AsStated ==
    Returned =>
      \A e \in names :
        Importable(e) =>
          \A d \in Ancestors(e) :
            MarkerOf(d) \in walks[e] <=>
              ~\E below \in Ancestors(e) : IsPrefix(d, below) /\ Settled(below, names)

\* C2, amended: walking up from an importable entry, a settled directory is
\* only skipped: it gets no marker path on account of this entry, and the
\* walk goes on to the root, so that every ancestor that is not settled gets
\* one, above a settled directory too; nothing else is added.
C2_SkipsButContinues ==
    Returned =>
      \A e \in names :
        /\ Importable(e) =>
             \A d \in Ancestors(e) :
               MarkerOf(d) \in walks[e] <=> ~Settled(d, names)
        /\ walks[e] \subseteq {MarkerOf(d) : d \in Ancestors(e)}
        /\ ~Importable(e) => walks[e] = {}

\* An entry two levels deep whose directory is settled and whose directory's
\* parent is not: the parent's marker path was added for this entry.
C2_Witness ==
    /\ Returned
    /\ \E e \in names :
         /\ Importable(e)
         /\ ~IsMarker(e)
         /\ Len(e) = 3
         /\ Settled(dirname(e), names)
         /\ ~Settled(dirname(dirname(e)), names)
         /\ walks[e] = {MarkerOf(dirname(dirname(e)))}

\* C7: for entry names without marker files, get_init_paths returns the
\* marker paths of the proper ancestor directories of the .so, .py and .pyc
\* entries and nothing else: none for the root, for other entries, or for
\* entries that lie in the root.
C7_NoMarkers ==
    (Returned /\ \A e \in names : ~IsMarker(e)) =>
      init_paths =
        UNION {{MarkerOf(d) : d \in Ancestors(e)} : e \in {x \in names : Importable(x)}}

\* A .so entry two levels deep, beside an entry of another kind, and no
\* marker: both of the .so entry's ancestors, and only they, get a marker.
C7_Witness ==
    /\ Returned
    /\ \A e \in names : ~IsMarker(e)
    /\ \E e \in names :
         /\ Len(e) = 3
         /\ e[3] = LIB_SO
         /\ init_paths = {MarkerOf(<<e[1]>>), MarkerOf(<<e[1], e[2]>>)}
    /\ \E e \in names : Len(e) = 2 /\ e[2] = DATA_TXT

\* --- Package-root locator ---

\* The directories of the tree that hold an entry named pkgname.
Holders ==
    {d \in disk.dirs \cup {Root} :
       join(d, pkgname) \in disk.files \cup disk.dirs}

\* C4: the search returns a directory that holds an entry named as the
\* package and no directory nearer the root does; when no directory holds
\* one, it returns the sentinel ".", and only then.
C4_ShallowestHolder ==
    /\ pc = "found" =>
         /\ import_path.kind = "dir"
         /\ import_path.dir \in Holders
         /\ \A d \in Holders : Len(import_path.dir) <= Len(d)
    /\ pc = "fallback" =>
         /\ import_path.kind = "sentinel"
         /\ Holders = {}

\* The package lies two levels deep and nowhere nearer the root, beside
\* another directory at the first level; the two-level-deep parent is found.
C4_Witness ==
    /\ pc = "found"
    /\ Len(import_path.dir) = 2
    /\ Cardinality({d \in disk.dirs : Len(d) = 1}) = 2

\* --- The pipeline ---

Searching == pc \in {"walk", "found", "fallback", "failed_build", "done"}

\* The marker paths the archive's own entry names call for.
Needed ==
    UNION {{MarkerOf(d) : d \in {a \in Ancestors(e) : ~Settled(a, names)}} :
             e \in {x \in names : Importable(x)}}

\* C10: repair comes after extraction and before the search for the import
\* path. A marker file is written only when every entry is extracted; the
\* markers are those the archive's entry names call for; the search begins
\* only when all of them are written; and after a failed extraction or
\* marker write there is no search, no import path and no BUILD file.
C10_PipelineOrder ==
    /\ written # {} => extracted = names
    /\ written \subseteq Needed
    /\ (Searching \/ pkgname # <<>> \/ dirs # <<>> \/ import_path # Unset) =>
         (extracted = names /\ written = Needed)
    /\ manifest.written => (pc = "done" /\ import_path # Unset)
    /\ pc \in {"failed_extract", "failed_repair"} =>
         /\ pkgname = <<>>
         /\ dirs = <<>>
         /\ import_path = Unset
         /\ ~manifest.written
         /\ <<BUILD>> \notin disk.files

\* A run that extracted two entries, wrote a marker over one that was
\* already in the directory, found the package and wrote the BUILD file.
C10_Witness ==
    /\ pc = "done"
    /\ Cardinality(extracted) >= 2
    /\ <<A, INIT_PY>> \in written
    /\ <<A, INIT_PY>> \notin names
    /\ import_path.kind = "dir"
    /\ manifest.written

====
